---- MODULE Spec2Model ----
(***************************************************************************)
(* Model of the blog application (package blog): the request handlers of   *)
(* routers/blogs.py and routers/users.py, the password hasher of           *)
(* hashing.py, the output schemas of schemas.py and the session dependency *)
(* get_db of blog/main.py.                                                 *)
(*                                                                         *)
(* Two specifications share the state:                                     *)
(*   Spec      one request at a time, every handler one atomic action;     *)
(*   SpecConc  several requests in flight, every handler split at the      *)
(*             places where another request can run: session acquisition,  *)
(*             existence check, mutation plus commit, session release.     *)
(*                                                                         *)
(* A nullable value (a column that may be NULL, the result of .first())    *)
(* is a set with at most one element: {} is None.                          *)
(***************************************************************************)
EXTENDS Integers, Sequences, FiniteSets, TLC

\* Bounds of the model.
MaxBlogs == 2
MaxUsers == 1

\* Status codes named by the handlers' decorators and raises.
HTTP_200_OK == 200
HTTP_201_CREATED == 201
HTTP_202_ACCEPTED == 202
HTTP_204_NO_CONTENT == 204
HTTP_404_NOT_FOUND == 404

\* Request inputs. One body starts with a letter; the other starts with a digit
\* and has one character for each column of table blogs.
Titles == {"t1", "t2"}
Bodies == {"b1", "2xq1"}
Names == {"ann"}
Emails == {"ann@x.io"}
Passwords == {"pw1", "pw2"}
Salts == {"s1"}
BlogIds == 1..(MaxBlogs + 1)
UserIds == 1..(MaxUsers + 1)
\* The requests in flight together: two, each step of one against each step of
\* the other.
Workers == {1, 2}

VARIABLES
  blogs,      \* table blogs: sequence of rows in storage order
  users,      \* table users: sequence of rows in storage order
  blogSeq,    \* the storage's id sequence of table blogs
  userSeq,    \* the storage's id sequence of table users
  last,       \* the last request served and its response (Spec)
  assigned,   \* Spec history: ids a stored blog has had
  deleted,    \* Spec history: ids of successful DELETE /blog/{id}
  log,        \* Spec history: <<id, title, body>> as submitted, of the ids POST /blog
              \* returned and no DELETE removed
  updates,    \* Spec history: <<id, body>> of the last successful PUT /blog/{id}
              \* since the id was returned by POST /blog
  pc,         \* SpecConc: position of each worker's request
  rq,         \* SpecConc: each worker's request
  session,    \* SpecConc: each worker's database session
  acquired,   \* SpecConc: sessions acquired by the worker's current request
  resp,       \* SpecConc: outcome of each worker's handler
  ser,        \* SpecConc: the objects each worker's response is serialised from
  found,      \* SpecConc history: rows seen by the existence check
  matched     \* SpecConc history: rows matched by the mutation

dbVars == <<blogs, users, blogSeq, userSeq>>
histVars == <<assigned, deleted, log, updates>>
concVars == <<pc, rq, session, acquired, resp, ser, found, matched>>
vars == <<blogs, users, blogSeq, userSeq, last, assigned, deleted, log, updates,
          pc, rq, session, acquired, resp, ser, found, matched>>

(***************************************************************************)
(* Storage: the ORM calls the handlers make.                               *)
(***************************************************************************)

Max(a, b) == IF a >= b THEN a ELSE b

TheOne(s) == CHOOSE x \in s : TRUE

\* The largest id stored in a table, 0 for an empty table.
MaxId(tbl) ==
  IF tbl = <<>> THEN 0
  ELSE CHOOSE m \in {TheOne(tbl[i].id) : i \in DOMAIN tbl} :
         \A i \in DOMAIN tbl : TheOne(tbl[i].id) <= m

\* id of a row inserted without one: one more than the largest id the table's
\* sequence has handed out and than the largest id stored.
AutoId(seq, tbl) == Max(seq, MaxId(tbl)) + 1

\* The rows of a table in storage order: ascending primary key.
SortById(tbl) ==
  LET ids == {TheOne(tbl[i].id) : i \in DOMAIN tbl}
      rank(row) == Cardinality({j \in ids : j < TheOne(row.id)}) + 1
  IN [k \in DOMAIN tbl |-> tbl[CHOOSE i \in DOMAIN tbl : rank(tbl[i]) = k]]

\* db.add(obj); db.commit(): the object with the id its row is stored under.
DbAdd(seq, tbl, obj) ==
  [obj EXCEPT !.id = IF obj.id = {} THEN {AutoId(seq, tbl)} ELSE obj.id]

\* The table after the INSERT of db.add(obj); db.commit().
Insert(tbl, row) == SortById(Append(tbl, row))

\* db.refresh(obj): the row stored under the object's id, read again; none if
\* no row has that id any more (refresh then raises).
Refresh(tbl, obj) == SelectSeq(tbl, LAMBDA row : row.id = obj.id)

\* db.query(M).filter(M.id == id)
QueryFilter(tbl, id) == SelectSeq(tbl, LAMBDA row : row.id = {id})

\* Query.first()
First(q) == IF q = <<>> THEN {} ELSE {q[1]}

\* Query.all()
All(q) == q

\* Query.delete(synchronize_session=False): the table without the rows matched.
QueryDelete(tbl, id) == SelectSeq(tbl, LAMBDA row : row.id # {id})

\* A Python str passed as an argument: the sequence of its characters.
Str(s) ==
  CASE s = "" -> <<>>
    [] s = "b1" -> <<"b", "1">>
    [] s = "b2" -> <<"b", "2">>
    [] s = "2x" -> <<"2", "x">>
    [] s = "3y" -> <<"3", "y">>
    [] s = "1zq" -> <<"1", "z", "q">>
    [] s = "1zq1" -> <<"1", "z", "q", "1">>
    [] s = "2xq1" -> <<"2", "x", "q", "1">>
    [] s = "2xqz" -> <<"2", "x", "q", "z">>

Digits == <<"0", "1", "2", "3", "4", "5", "6", "7", "8", "9">>

IsDigit(c) == \E d \in DOMAIN Digits : Digits[d] = c

\* The integer an integer column stores for the text of one digit.
DigitValue(c) == (CHOOSE d \in DOMAIN Digits : Digits[d] = c) - 1

\* NULL in the INTEGER column creator_id. The column holds an integer or, since
\* the database keeps text that is no number as text, a text.
Null == [int |-> {}, text |-> {}]

\* What the INTEGER column creator_id stores for a text of one character: the
\* integer if the text is a digit, else the text itself.
IntegerAffinity(c) ==
  IF IsDigit(c) THEN [int |-> {DigitValue(c)}, text |-> {}]
  ELSE [int |-> {}, text |-> {c}]

\* The columns of table blogs, in the order of the table.
BlogColumns == <<"id", "title", "body", "creator_id">>

\* Query.update(values) given a sequence instead of a mapping: the elements are
\* paired with the table's columns in order, SET id = values[0], title =
\* values[1], ... for as many columns as there are elements.
\* - No element: the statement has nothing to set and is rejected.
\* - No row matched: nothing is evaluated, 0 rows are updated, no error.
\* - A row matched: the integer primary key takes the text only if it is an
\*   integer (otherwise the database raises), and only if no other row has
\*   that id (otherwise the database raises); title and body take the text,
\*   creator_id takes it as an integer column does. The row is then stored
\*   under its new id: the table stays in primary key order.
QueryUpdate(tbl, id, values) ==
  LET n == IF Len(values) < Len(BlogColumns) THEN Len(values) ELSE Len(BlogColumns)
      hit == {i \in DOMAIN tbl : tbl[i].id = {id}}
      set(row) ==
        [c \in DOMAIN row |->
          IF \E k \in 1..n : BlogColumns[k] = c
          THEN LET v == values[CHOOSE k \in 1..n : BlogColumns[k] = c]
               IN IF c = "id" THEN {DigitValue(v)}
                  ELSE IF c = "creator_id" THEN IntegerAffinity(v)
                  ELSE v
          ELSE row[c]]
  IN IF n = 0 THEN [ok |-> FALSE, tbl |-> tbl]
     ELSE IF hit = {} THEN [ok |-> TRUE, tbl |-> tbl]
     ELSE IF ~IsDigit(values[1]) THEN [ok |-> FALSE, tbl |-> tbl]
     ELSE IF \E j \in DOMAIN tbl \ hit : tbl[j].id = {DigitValue(values[1])}
          THEN [ok |-> FALSE, tbl |-> tbl]
          ELSE [ok |-> TRUE,
                tbl |-> SortById([i \in DOMAIN tbl |->
                                    IF i \in hit THEN set(tbl[i]) ELSE tbl[i]])]

(***************************************************************************)
(* hashing.py                                                              *)
(***************************************************************************)

\* Hash.get_password_hash: the salted digest string of the hashing library.
get_password_hash(password, salt) ==
  "$argon2id$" \o salt \o "$" \o "H(" \o password \o "," \o salt \o ")"

HashOutputs == {get_password_hash(p, s) : p \in Passwords, s \in Salts}

(***************************************************************************)
(* schemas.py: output shapes                                               *)
(***************************************************************************)

\* The schemas read an object's attributes. A user object has name, email,
\* password and blogs (a sequence of blog objects); a blog object has title,
\* body and creator (a user object or None). ShowUser and ShowBlog refer to each
\* other, so the shapes nest as deep as the objects do.
RECURSIVE ShowUserFields(_, _)

\* ShowBlog: title, body, creator (a ShowUser or None)
ShowBlog(b) ==
  [title |-> b.title, body |-> b.body,
   creator |-> {ShowUserFields(c, {"name", "email", "blogs"}) : c \in b.creator}]

\* The fields of a user object a schema declares, blogs as a list of ShowBlog.
ShowUserFields(u, fields) ==
  [f \in fields |->
    IF f = "blogs" THEN [i \in DOMAIN u.blogs |-> ShowBlog(u.blogs[i])] ELSE u[f]]

\* Fault variant of ShowUser: the output shape also carries the stored password.
ShowUser_with_password(u) == ShowUserFields(u, {"name", "email", "blogs", "password"})

\* ShowUser: name, email, blogs
ShowUser(u) == ShowUserFields(u, {"name", "email", "blogs"})

\* User.blogs: the rows of blogs whose creator_id is the user's id.
UserBlogs(urow) == SelectSeq(blogs, LAMBDA b : b.creator_id.int = urow.id)

\* Blog.creator: the rows of users the blog's creator_id refers to.
Creator(row) == SelectSeq(users, LAMBDA u : u.id = row.creator_id.int)

\* The object the session loads for a users row. A user with blogs is the
\* creator of each of them: the objects refer to each other in a cycle, which
\* no finite output shape holds; such a user has no object here (see
\* UserResponse).
UserObject(urow) ==
  [id |-> urow.id, name |-> urow.name, email |-> urow.email,
   password |-> urow.password, blogs |-> <<>>]

\* The object the session loads for a blogs row without a creator; a blog with
\* a creator is in a cycle with it (see ShowResponse).
BlogObject(row) ==
  [id |-> row.id, title |-> row.title, body |-> row.body,
   creator_id |-> row.creator_id, creator |-> {}]

(***************************************************************************)
(* Responses                                                               *)
(***************************************************************************)

Response(status, detail, content) ==
  [status |-> status, detail |-> detail, content |-> content]

\* raise HTTPException(status_code, detail)
HTTPException(status, detail) == Response(status, detail, <<>>)

\* An exception no handler catches: the framework answers 500.
ServerError == Response(500, "Internal Server Error", <<>>)

\* blogs.py show: the detail of its 404
ShowDetail(id) == "Blog with the id " \o ToString(id) \o " is not avaliable"

\* blogs.py destory and update: the detail of their 404
BlogDetail(id) == "Blog with id " \o ToString(id) \o " not found"

\* users.py get_user: the detail of its 404
UserDetail(id) == "User with the id " \o ToString(id) \o " is not available"

(***************************************************************************)
(* Spec: the handlers, one request at a time.                              *)
(***************************************************************************)

\* What last holds: the operation, the path id (if any), the payload, the response.
Served(op, id, req, response) == [op |-> op, id |-> id, req |-> req, resp |-> response]

\* A blog row as the JSON of POST /blog, which declares no response model.
BlogJson(row) ==
  [id |-> TheOne(row.id), title |-> row.title, body |-> row.body,
   creator_id |-> row.creator_id]

\* Fault variant of new_blog: title and body exchanged.
new_blog_swapped(title, body) ==
  [id |-> {}, title |-> body, body |-> title, creator_id |-> Null]

\* blogs.py create: models.Blog(title = request.title, body = request.body)
new_blog(title, body) == [id |-> {}, title |-> title, body |-> body, creator_id |-> Null]

\* blogs.py create, after its commit: db.refresh(new_blog); return new_blog.
\* The refresh raises if the row is no longer stored under the id.
CreateResponse(tbl, obj) ==
  LET row == Refresh(tbl, obj)
  IN IF row = <<>> THEN ServerError
     ELSE Response(HTTP_201_CREATED, "", BlogJson(row[1]))

\* blogs.py create (POST /blog)
create(title, body, commitOk) ==
  /\ AutoId(blogSeq, blogs) <= MaxBlogs
  /\ LET row == DbAdd(blogSeq, blogs, new_blog(title, body))
         req == [title |-> title, body |-> body]
         new == BlogJson(row).id
     IN IF commitOk
        THEN /\ blogs' = Insert(blogs, row)
             /\ blogSeq' = Max(blogSeq, TheOne(row.id))
             /\ last' = Served("create", {}, req, CreateResponse(blogs', row))
             /\ assigned' = assigned \cup {new}
             /\ log' = Append(SelectSeq(log, LAMBDA e : e[1] # new), <<new, title, body>>)
             /\ updates' = {u \in updates : u[1] # new}
        ELSE /\ last' = Served("create", {}, req, ServerError)
             /\ UNCHANGED <<blogs, blogSeq, assigned, log, updates>>
  /\ UNCHANGED <<users, userSeq, deleted, concVars>>

\* blogs.py all (GET /blog): response_model List[ShowBlog]. A blog in a cycle
\* with its creator cannot be serialised: the response validation raises.
AllResponse(tbl) ==
  LET rows == All(tbl)
  IN IF \E i \in DOMAIN rows : Creator(rows[i]) # <<>>
     THEN ServerError
     ELSE Response(HTTP_200_OK, "", [i \in DOMAIN rows |-> ShowBlog(BlogObject(rows[i]))])

all ==
  /\ last' = Served("all", {}, <<>>, AllResponse(blogs))
  /\ UNCHANGED <<dbVars, histVars, concVars>>

\* blogs.py show (GET /blog/{id}): response_model ShowBlog
ShowResponse(tbl, id) ==
  LET blog == First(QueryFilter(tbl, id))
  IN IF blog = {}
     THEN HTTPException(HTTP_404_NOT_FOUND, ShowDetail(id))
     ELSE IF Creator(TheOne(blog)) # <<>>
          THEN ServerError
          ELSE Response(HTTP_200_OK, "", ShowBlog(BlogObject(TheOne(blog))))

show(id) ==
  /\ last' = Served("show", {id}, <<>>, ShowResponse(blogs, id))
  /\ UNCHANGED <<dbVars, histVars, concVars>>

\* Variant of DestoryMutate: a delete that matches no row raises the 404.
DestoryMutate_detects(tbl, id, commitOk) ==
  IF QueryFilter(tbl, id) = <<>>
  THEN [tbl |-> tbl, resp |-> HTTPException(HTTP_404_NOT_FOUND, BlogDetail(id))]
  ELSE IF commitOk
       THEN [tbl |-> QueryDelete(tbl, id),
             resp |-> Response(HTTP_204_NO_CONTENT, "", "Done")]
       ELSE [tbl |-> tbl, resp |-> ServerError]

\* blogs.py destory, after its existence check: delete, commit, return "Done".
\* The status does not depend on how many rows the delete matched.
DestoryMutate(tbl, id, commitOk) ==
  IF commitOk
  THEN [tbl |-> QueryDelete(tbl, id), resp |-> Response(HTTP_204_NO_CONTENT, "", "Done")]
  ELSE [tbl |-> tbl, resp |-> ServerError]

\* Fault variant of destory: no existence check before the delete.
destory_unchecked(id, commitOk) ==
  /\ LET out == DestoryMutate(blogs, id, commitOk)
     IN /\ blogs' = out.tbl
        /\ last' = Served("destory", {id}, <<>>, out.resp)
        /\ deleted' = IF out.resp.status = HTTP_204_NO_CONTENT
                      THEN deleted \cup {id} ELSE deleted
        /\ log' = IF out.resp.status = HTTP_204_NO_CONTENT
                  THEN SelectSeq(log, LAMBDA e : e[1] # id) ELSE log
        /\ updates' = IF out.resp.status = HTTP_204_NO_CONTENT
                      THEN {u \in updates : u[1] # id} ELSE updates
  /\ UNCHANGED <<users, blogSeq, userSeq, assigned, concVars>>

\* blogs.py destory (DELETE /blog/{id})
destory(id, commitOk) ==
  /\ IF First(QueryFilter(blogs, id)) = {}
     THEN /\ last' = Served("destory", {id}, <<>>,
                            HTTPException(HTTP_404_NOT_FOUND, BlogDetail(id)))
          /\ UNCHANGED <<blogs, deleted, log, updates>>
     ELSE LET out == DestoryMutate(blogs, id, commitOk)
          IN /\ blogs' = out.tbl
             /\ last' = Served("destory", {id}, <<>>, out.resp)
             /\ deleted' = IF out.resp.status = HTTP_204_NO_CONTENT
                           THEN deleted \cup {id} ELSE deleted
             /\ log' = IF out.resp.status = HTTP_204_NO_CONTENT
                       THEN SelectSeq(log, LAMBDA e : e[1] # id) ELSE log
             /\ updates' = IF out.resp.status = HTTP_204_NO_CONTENT
                           THEN {u \in updates : u[1] # id} ELSE updates
  /\ UNCHANGED <<users, blogSeq, userSeq, assigned, concVars>>

\* blogs.py update, after its existence check: blog.update(request.body), commit,
\* return. request.body is a str, not a mapping of columns; request.title is
\* not used.
UpdateMutate(tbl, id, req, commitOk) ==
  LET upd == QueryUpdate(tbl, id, Str(req.body))
  IN IF upd.ok /\ commitOk
     THEN [tbl |-> upd.tbl,
           resp |-> Response(HTTP_202_ACCEPTED, "", "Updated successfully")]
     ELSE [tbl |-> tbl, resp |-> ServerError]

\* blogs.py update (PUT /blog/{id})
update(id, title, body, commitOk) ==
  LET req == [title |-> title, body |-> body]
  IN /\ IF First(QueryFilter(blogs, id)) = {}
        THEN /\ last' = Served("update", {id}, req,
                               HTTPException(HTTP_404_NOT_FOUND, BlogDetail(id)))
             /\ UNCHANGED <<blogs, updates>>
        ELSE LET out == UpdateMutate(blogs, id, req, commitOk)
             IN /\ blogs' = out.tbl
                /\ last' = Served("update", {id}, req, out.resp)
                /\ updates' = IF out.resp.status = HTTP_202_ACCEPTED
                              THEN {u \in updates : u[1] # id} \cup {<<id, body>>}
                              ELSE updates
     /\ assigned' = assigned \cup {TheOne(blogs'[i].id) : i \in DOMAIN blogs'}
     /\ UNCHANGED <<users, blogSeq, userSeq, deleted, log, concVars>>

\* users.py create_user: models.User(name, email, password = hashedPassword)
new_user(name, email, password, salt) ==
  [id |-> {}, name |-> name, email |-> email,
   password |-> get_password_hash(password, salt)]

\* response_model ShowUser on a users row. A user in a cycle with its blogs
\* cannot be serialised: the response validation raises.
ShowUserResponse(urow) ==
  IF UserBlogs(urow) # <<>>
  THEN ServerError
  ELSE Response(HTTP_200_OK, "", ShowUser(UserObject(urow)))

\* users.py create_user, after its commit: db.refresh(new_user); return new_user
\* through ShowUser.
CreateUserResponse(tbl, obj) ==
  LET row == Refresh(tbl, obj)
  IN IF row = <<>> THEN ServerError ELSE ShowUserResponse(row[1])

\* users.py create_user (POST /user): response_model ShowUser
create_user(name, email, password, salt, commitOk) ==
  /\ userSeq < MaxUsers
  /\ LET row == DbAdd(userSeq, users, new_user(name, email, password, salt))
         req == [name |-> name, email |-> email, password |-> password]
     IN IF commitOk
        THEN /\ users' = Insert(users, row)
             /\ userSeq' = Max(userSeq, TheOne(row.id))
             /\ last' = Served("create_user", {}, req, CreateUserResponse(users', row))
        ELSE /\ last' = Served("create_user", {}, req, ServerError)
             /\ UNCHANGED <<users, userSeq>>
  /\ UNCHANGED <<blogs, blogSeq, histVars, concVars>>

\* users.py get_user (GET /user/{id}): response_model ShowUser
UserResponse(tbl, id) ==
  LET user == First(QueryFilter(tbl, id))
  IN IF user = {}
     THEN HTTPException(HTTP_404_NOT_FOUND, UserDetail(id))
     ELSE ShowUserResponse(TheOne(user))

get_user(id) ==
  /\ last' = Served("get_user", {id}, <<>>, UserResponse(users, id))
  /\ UNCHANGED <<dbVars, histVars, concVars>>

NoRequest == Served("none", {}, <<>>, Response(0, "", <<>>))

\* No object loaded: rows are the blog rows the handler has read, out the
\* ShowBlog shapes built of them so far, creator the user whose blogs are to be
\* loaded next, cache the users of the session whose blogs are loaded (and empty).
NoObjects == [rows |-> <<>>, out |-> <<>>, creator |-> {}, cache |-> {}]

IdleWorkers ==
  /\ pc = [r \in Workers |-> "idle"]
  /\ rq = [r \in Workers |-> [op |-> "none", id |-> 0, req |-> <<>>]]
  /\ session = [r \in Workers |-> "none"]
  /\ acquired = [r \in Workers |-> 0]
  /\ resp = [r \in Workers |-> Response(0, "", <<>>)]
  /\ ser = [r \in Workers |-> NoObjects]
  /\ found = [r \in Workers |-> 0]
  /\ matched = [r \in Workers |-> 0]

Init ==
  /\ blogs = <<>>
  /\ users = <<>>
  /\ blogSeq = 0
  /\ userSeq = 0
  /\ last = NoRequest
  /\ assigned = {}
  /\ deleted = {}
  /\ log = <<>>
  /\ updates = {}
  /\ IdleWorkers

Next ==
  \/ \E t \in Titles, b \in Bodies, ok \in BOOLEAN : create(t, b, ok)
  \/ all
  \/ \E id \in BlogIds : show(id)
  \/ \E id \in BlogIds, ok \in BOOLEAN : destory(id, ok)
  \/ \E id \in BlogIds, t \in Titles, b \in Bodies, ok \in BOOLEAN : update(id, t, b, ok)
  \/ \E n \in Names, e \in Emails, p \in Passwords, s \in Salts, ok \in BOOLEAN :
       create_user(n, e, p, s, ok)
  \/ \E id \in UserIds : get_user(id)

Spec == Init /\ [][Next]_vars

(***************************************************************************)
(* SpecConc: requests in flight on several workers. Each handler runs in   *)
(* its own session; a session reads and writes the committed tables.       *)
(***************************************************************************)

\* Whether the handler ended by raising (an HTTPException or an uncaught error).
Raised(response) ==
  response.status \notin {HTTP_200_OK, HTTP_201_CREATED, HTTP_202_ACCEPTED,
                          HTTP_204_NO_CONTENT}

\* main.py get_db, entry: db = SessionLocal(); yield db
get_db_enter == "open"

\* Fault variant of get_db_finally: close after the yield, without try/finally.
get_db_no_finally(s, raised) == IF raised THEN s ELSE "closed"

\* main.py get_db, exit: finally: db.close(), however the handler ended.
get_db_finally(s, raised) == "closed"

\* The requests of operation op that have not inserted their row yet.
Inserting(op) == {w \in Workers : pc[w] = "commit" /\ rq[w].op = op}

\* The request arrives: the dependency get_db hands the handler a session.
\* A POST has no path id; its id field holds the new object's id once the
\* commit has set it.
Begin(r, op, id, req) ==
  /\ pc[r] = "idle"
  /\ op = "create"
       => AutoId(blogSeq, blogs) + Cardinality(Inserting("create")) <= MaxBlogs
  /\ op = "create_user" => userSeq + Cardinality(Inserting("create_user")) < MaxUsers
  /\ rq' = [rq EXCEPT ![r] = [op |-> op, id |-> id, req |-> req]]
  /\ session' = [session EXCEPT ![r] = get_db_enter]
  /\ acquired' = [acquired EXCEPT ![r] = @ + 1]
  /\ pc' = [pc EXCEPT ![r] = IF op \in {"create", "create_user"} THEN "commit" ELSE "check"]
  /\ UNCHANGED <<dbVars, last, histVars, resp, ser, found, matched>>

\* The handler returns or raises: its outcome is with the framework, the
\* session is still open.
Return(r, response) ==
  /\ resp' = [resp EXCEPT ![r] = response]
  /\ pc' = [pc EXCEPT ![r] = "unwind"]

\* The object a POST builds from its payload.
NewObject(r) ==
  IF rq[r].op = "create"
  THEN new_blog(rq[r].req.title, rq[r].req.body)
  ELSE new_user(rq[r].req.name, rq[r].req.email, rq[r].req.password, rq[r].req.salt)

\* create, create_user: build the object; db.add(obj); db.commit()
Commit(r, commitOk) ==
  /\ pc[r] = "commit"
  /\ IF ~commitOk
     THEN /\ Return(r, ServerError)
          /\ UNCHANGED <<dbVars, rq>>
     ELSE IF rq[r].op = "create"
          THEN LET row == DbAdd(blogSeq, blogs, NewObject(r))
               IN /\ blogs' = Insert(blogs, row)
                  /\ blogSeq' = Max(blogSeq, TheOne(row.id))
                  /\ rq' = [rq EXCEPT ![r].id = TheOne(row.id)]
                  /\ pc' = [pc EXCEPT ![r] = "refresh"]
                  /\ UNCHANGED <<users, userSeq, resp>>
          ELSE LET row == DbAdd(userSeq, users, NewObject(r))
               IN /\ users' = Insert(users, row)
                  /\ userSeq' = Max(userSeq, TheOne(row.id))
                  /\ rq' = [rq EXCEPT ![r].id = TheOne(row.id)]
                  /\ pc' = [pc EXCEPT ![r] = "refresh"]
                  /\ UNCHANGED <<blogs, blogSeq, resp>>
  /\ UNCHANGED <<last, histVars, session, acquired, ser, found, matched>>

\* The handler returns objects for its response_model: the framework
\* serialises them in a call of its own.
ReturnObjects(r, objects) ==
  /\ ser' = [ser EXCEPT ![r] = objects]
  /\ pc' = [pc EXCEPT ![r] = "serialise"]
  /\ UNCHANGED resp

\* create, create_user: db.refresh(obj); return obj. A round trip of its own:
\* the row is read as the requests committed in between have left it. create
\* has no response_model: the refreshed attributes are the response.
\* create_user returns the user for ShowUser.
RefreshStep(r) ==
  /\ pc[r] = "refresh"
  /\ LET obj == [NewObject(r) EXCEPT !.id = {rq[r].id}]
         row == Refresh(IF rq[r].op = "create" THEN blogs ELSE users, obj)
     IN IF rq[r].op = "create"
        THEN Return(r, CreateResponse(blogs, obj)) /\ UNCHANGED ser
        ELSE IF row = <<>>
             THEN Return(r, ServerError) /\ UNCHANGED ser
             ELSE ReturnObjects(r, [NoObjects EXCEPT !.creator = {row[1]}])
  /\ UNCHANGED <<dbVars, last, histVars, rq, session, acquired, found, matched>>

\* all, show, get_user: the query and the return of the objects read;
\* all, destory, update, show, get_user: "if not ...: raise HTTPException(404)".
Check(r) ==
  /\ pc[r] = "check"
  /\ IF rq[r].op = "all"
     THEN ReturnObjects(r, [NoObjects EXCEPT !.rows = All(blogs)]) /\ UNCHANGED found
     ELSE IF rq[r].op = "get_user"
     THEN LET user == First(QueryFilter(users, rq[r].id))
          IN /\ IF user = {}
                THEN Return(r, HTTPException(HTTP_404_NOT_FOUND, UserDetail(rq[r].id)))
                     /\ UNCHANGED ser
                ELSE ReturnObjects(r, [NoObjects EXCEPT !.creator = user])
             /\ UNCHANGED found
     ELSE IF rq[r].op = "show"
     THEN LET blog == First(QueryFilter(blogs, rq[r].id))
          IN /\ IF blog = {}
                THEN Return(r, HTTPException(HTTP_404_NOT_FOUND, ShowDetail(rq[r].id)))
                     /\ UNCHANGED ser
                ELSE ReturnObjects(r, [NoObjects EXCEPT !.rows = <<TheOne(blog)>>])
             /\ UNCHANGED found
     ELSE LET rows == QueryFilter(blogs, rq[r].id)
          IN /\ found' = [found EXCEPT ![r] = Len(rows)]
             /\ IF First(rows) = {}
                THEN Return(r, HTTPException(HTTP_404_NOT_FOUND, BlogDetail(rq[r].id)))
                ELSE /\ pc' = [pc EXCEPT ![r] = "mutate"]
                     /\ UNCHANGED resp
             /\ UNCHANGED ser
  /\ UNCHANGED <<dbVars, last, histVars, rq, session, acquired, matched>>

\* The response of all (a list) or show (one ShowBlog) of the shapes built.
BlogsResponse(op, out) ==
  Response(HTTP_200_OK, "", IF op = "all" THEN out ELSE out[1])

\* The serialisation of a blog row is built: it is the last one (the response
\* is complete) or the next row follows.
Built(r, out, cache) ==
  IF Len(out) = Len(ser[r].rows)
  THEN /\ Return(r, BlogsResponse(rq[r].op, out))
       /\ ser' = [ser EXCEPT ![r] = NoObjects]
  ELSE /\ ser' = [ser EXCEPT ![r] = [@ EXCEPT !.out = out, !.creator = {}, !.cache = cache]]
       /\ UNCHANGED <<resp, pc>>

\* response_model ShowBlog / List[ShowBlog] / ShowUser: the framework reads the
\* attributes of the objects the handler returned. blog.creator and user.blogs
\* are loaded when first read, each by a query of its own on the tables as
\* they are then; a user loaded stays in the session. One query a step:
\* - user.blogs of the user at hand: if the user has blogs, each of them has the
\*   user as its creator and the shapes nest without end (the validation
\*   raises); without blogs the user's shape is complete;
\* - else blog.creator of the next blog row: no query for a NULL creator_id or
\*   a user of the session, else the user is read by its id.
Serialise(r) ==
  /\ pc[r] = "serialise"
  /\ LET s == ser[r]
         blog == BlogObject(s.rows[Len(s.out) + 1])
         with(u) == ShowBlog([blog EXCEPT !.creator = {UserObject(u)}])
     IN IF s.creator # {}
        THEN LET u == TheOne(s.creator)
             IN IF UserBlogs(u) # <<>>
                THEN /\ Return(r, ServerError)
                     /\ ser' = [ser EXCEPT ![r] = NoObjects]
                ELSE IF rq[r].op \in {"get_user", "create_user"}
                THEN /\ Return(r, Response(HTTP_200_OK, "", ShowUser(UserObject(u))))
                     /\ ser' = [ser EXCEPT ![r] = NoObjects]
                ELSE Built(r, Append(s.out, with(u)), s.cache \cup {u})
        ELSE IF Len(s.out) = Len(s.rows)
        THEN Built(r, s.out, s.cache)
        ELSE IF \E u \in s.cache : u.id = blog.creator_id.int
        THEN Built(r, Append(s.out, with(CHOOSE u \in s.cache : u.id = blog.creator_id.int)),
                   s.cache)
        ELSE IF Creator(blog) = <<>>
        THEN Built(r, Append(s.out, ShowBlog(blog)), s.cache)
        ELSE /\ ser' = [ser EXCEPT ![r].creator = {Creator(blog)[1]}]
             /\ UNCHANGED <<resp, pc>>
  /\ UNCHANGED <<dbVars, last, histVars, rq, session, acquired, found, matched>>

\* destory, update: the statement on the query, the commit and the return.
Mutate(r, commitOk) ==
  /\ pc[r] = "mutate"
  /\ LET out == IF rq[r].op = "destory"
                THEN DestoryMutate(blogs, rq[r].id, commitOk)
                ELSE UpdateMutate(blogs, rq[r].id, rq[r].req, commitOk)
     IN /\ blogs' = out.tbl
        /\ Return(r, out.resp)
  /\ matched' = [matched EXCEPT ![r] = Len(QueryFilter(blogs, rq[r].id))]
  /\ UNCHANGED <<users, blogSeq, userSeq, last, histVars, rq, session, acquired, ser, found>>

\* The handler is over: get_db resumes after its yield, finally: db.close().
Unwind(r) ==
  /\ pc[r] = "unwind"
  /\ session' = [session EXCEPT ![r] = get_db_finally(@, Raised(resp[r]))]
  /\ pc' = [pc EXCEPT ![r] = "done"]
  /\ UNCHANGED <<dbVars, last, histVars, rq, acquired, resp, ser, found, matched>>

\* The request is over: the worker is free for the next request. A session
\* still open stays open.
Complete(r) ==
  /\ pc[r] = "done"
  /\ pc' = [pc EXCEPT ![r] = "idle"]
  /\ rq' = [rq EXCEPT ![r] = [op |-> "none", id |-> 0, req |-> <<>>]]
  /\ session' = [session EXCEPT ![r] = IF @ = "closed" THEN "none" ELSE @]
  /\ acquired' = [acquired EXCEPT ![r] = IF session[r] = "closed" THEN 0 ELSE @]
  /\ resp' = [resp EXCEPT ![r] = Response(0, "", <<>>)]
  /\ UNCHANGED ser
  /\ found' = [found EXCEPT ![r] = 0]
  /\ matched' = [matched EXCEPT ![r] = 0]
  /\ UNCHANGED <<dbVars, last, histVars>>

\* The state after one successful POST /blog: one blog, whose id the requests
\* of the workers contend for; the other ids of BlogIds have no record.
InitConc ==
  LET row == DbAdd(0, <<>>, new_blog("t1", "b1"))
  IN /\ blogs = <<row>>
     /\ users = <<>>
     /\ blogSeq = TheOne(row.id)
     /\ userSeq = 0
     /\ last = Served("create", {}, [title |-> "t1", body |-> "b1"],
                      Response(HTTP_201_CREATED, "", BlogJson(row)))
     /\ assigned = row.id
     /\ deleted = {}
     /\ log = << <<TheOne(row.id), "t1", "b1">> >>
     /\ updates = {}
     /\ IdleWorkers

NextConc ==
  \E r \in Workers :
    \/ Begin(r, "create", 0, [title |-> "t2", body |-> "b1"])
    \/ Begin(r, "all", 0, <<>>)
    \/ \E id \in BlogIds : Begin(r, "show", id, <<>>)
    \/ \E id \in BlogIds : Begin(r, "destory", id, <<>>)
    \/ \E id \in BlogIds, b \in Bodies :
         Begin(r, "update", id, [title |-> "t1", body |-> b])
    \/ \E n \in Names, e \in Emails, s \in Salts :
         Begin(r, "create_user", 0,
               [name |-> n, email |-> e, password |-> "pw1", salt |-> s])
    \/ \E id \in UserIds : Begin(r, "get_user", id, <<>>)
    \/ \E ok \in BOOLEAN : Commit(r, ok)
    \/ RefreshStep(r)
    \/ Check(r)
    \/ Serialise(r)
    \/ \E ok \in BOOLEAN : Mutate(r, ok)
    \/ Unwind(r)
    \/ Complete(r)

SpecConc == InitConc /\ [][NextConc]_vars

(***************************************************************************)
(* Properties                                                              *)
(***************************************************************************)

BlogOps == {"show", "update", "destory"}

\* The step is a request of one of ops on id (last holds the request served by
\* the step; a step that changes nothing is a stuttering step).
Serves(ops, id) == last'.op \in ops /\ last'.id = {id}

\* The body a blog created as entry e of log is expected to have now.
ExpectedBody(e) ==
  IF \E u \in updates : u[1] = e[1]
  THEN (CHOOSE u \in updates : u[1] = e[1])[2]
  ELSE e[3]

\* How many elements of sequence s have title t and body b.
Count(s, t, b) == Cardinality({i \in DOMAIN s : s[i].title = t /\ s[i].body = b})

UniqueIds == \A i, j \in DOMAIN blogs : blogs[i].id = blogs[j].id => i = j

\* C1: a successful POST /blog returns an id that no earlier blog has had,
\* deleted blogs included, and no two stored blogs share an id.
C1_FreshUniqueId ==
  /\ []UniqueIds
  /\ [][(last'.op = "create" /\ last'.resp.status = HTTP_201_CREATED /\ blogs' # blogs)
          => last'.resp.content.id \notin assigned]_vars

\* C2: a GET, PUT or DELETE of a blog id, or a GET of a user id, that has no
\* record ends with 404 and leaves both tables as they were.
C2_MissingIsNotFound ==
  [][\A id \in BlogIds \cup UserIds :
       (\/ Serves(BlogOps, id) /\ QueryFilter(blogs, id) = <<>>
        \/ Serves({"get_user"}, id) /\ QueryFilter(users, id) = <<>>)
       => /\ last'.resp.status = HTTP_404_NOT_FOUND
          /\ blogs' = blogs
          /\ users' = users]_vars

\* C2 witness: a DELETE of an id without a record was answered 404 while
\* another blog was stored.
C2_Witness ==
  /\ last.op = "destory" /\ last.resp.status = HTTP_404_NOT_FOUND
  /\ last.id \cap assigned = {}
  /\ blogs # <<>>

\* C3: the 404 of GET /blog/{id} carries the message
\* "Blog with the id {id} is not available".
C3_ShowMessage ==
  (last.op = "show" /\ last.resp.status = HTTP_404_NOT_FOUND)
    => last.resp.detail =
         "Blog with the id " \o ToString(TheOne(last.id)) \o " is not available"

\* C4: GET /blog/{id} of a created blog that was neither updated nor deleted
\* since returns the title and the body submitted to POST /blog.
C4_RoundTrip ==
  \A i \in DOMAIN log :
    (last.op = "show" /\ last.id = {log[i][1]} /\ ~(\E u \in updates : u[1] = log[i][1]))
      => /\ last.resp.status = HTTP_200_OK
         /\ last.resp.content.title = log[i][2]
         /\ last.resp.content.body = log[i][3]

\* C4 witness: a GET returned a blog whose title and body are told apart.
C4_Witness ==
  /\ last.op = "show" /\ last.resp.status = HTTP_200_OK
  /\ last.resp.content.title = "t2" /\ last.resp.content.body = "b1"
  /\ Len(blogs) = 2

\* C5: PUT /blog/{id} of an existing blog ends with 202, after which the blog
\* has the body of the payload and the title it had.
C5_UpdateApplies ==
  \A i \in DOMAIN log :
    (last.op = "update" /\ last.id = {log[i][1]})
      => /\ last.resp.status = HTTP_202_ACCEPTED
         /\ ShowResponse(blogs, log[i][1]).status = HTTP_200_OK
         /\ ShowResponse(blogs, log[i][1]).content.body = last.req.body
         /\ ShowResponse(blogs, log[i][1]).content.title = log[i][2]

\* C6: once DELETE /blog/{id} has succeeded, the id has no record and every
\* later GET, PUT or DELETE of it ends with 404; the deletion leaves the users
\* as they were.
C6_DeletePermanent ==
  /\ [](\A id \in deleted : QueryFilter(blogs, id) = <<>>)
  /\ [][\A id \in deleted :
          Serves(BlogOps, id) => last'.resp.status = HTTP_404_NOT_FOUND]_vars
  /\ [][(last'.op = "destory" /\ last'.resp.status = HTTP_204_NO_CONTENT)
          => users' = users]_vars

\* C7: the response of POST /user and GET /user/{id} has the fields name,
\* email and blogs only, none of them a password or a hash; the stored
\* password is the hasher's output for the submitted password, not the password.
C7_NoPasswordOut ==
  /\ (last.op \in {"create_user", "get_user"} /\ last.resp.status = HTTP_200_OK)
       => /\ DOMAIN last.resp.content = {"name", "email", "blogs"}
          /\ \A f \in DOMAIN last.resp.content \ {"blogs"} :
               last.resp.content[f] \notin Passwords \cup HashOutputs
  /\ \A i \in DOMAIN users :
       users[i].password \in HashOutputs /\ users[i].password \notin Passwords
  /\ (last.op = "create_user" /\ last.resp.status = HTTP_200_OK)
       => \E s \in Salts :
            users[Len(users)].password = get_password_hash(last.req.password, s)

\* C7 witness: a stored user was returned by GET /user/{id}.
C7_Witness ==
  /\ last.op = "get_user" /\ last.resp.status = HTTP_200_OK
  /\ users # <<>>

\* C8: a request holds exactly one session while it runs, and the session is
\* closed when the request is done, however the handler ended.
C8_SessionReleased ==
  \A r \in Workers :
    /\ pc[r] \in {"commit", "refresh", "check", "mutate", "serialise", "unwind"}
         => acquired[r] = 1 /\ session[r] = "open"
    /\ pc[r] = "done" => acquired[r] = 1 /\ session[r] = "closed"
    /\ pc[r] = "idle" => acquired[r] = 0 /\ session[r] = "none"

\* C8 witness: one request is done after a 404 with its session closed, while
\* the handler of another is over after an uncaught error and its session is
\* still open.
C8_Witness ==
  \E r1, r2 \in Workers :
    /\ pc[r1] = "done" /\ resp[r1].status = HTTP_404_NOT_FOUND /\ session[r1] = "closed"
    /\ pc[r2] = "unwind" /\ resp[r2].status = 500 /\ session[r2] = "open"

\* C9: GET /blog returns the blogs created and not deleted, each once, with
\* the title submitted and the body submitted or last successfully put; a
\* failed request or a user request leaves that list as it was.
C9_ListIsLive ==
  /\ [](last.op = "all" =>
          /\ Len(last.resp.content) = Len(log)
          /\ \A t \in Titles, b \in Bodies :
               Count(last.resp.content, t, b)
                 = Cardinality({i \in DOMAIN log :
                                  log[i][2] = t /\ ExpectedBody(log[i]) = b}))
  /\ [][(\/ last'.resp.status \notin {HTTP_200_OK, HTTP_201_CREATED,
                                      HTTP_202_ACCEPTED, HTTP_204_NO_CONTENT}
         \/ last'.op \in {"create_user", "get_user"})
          => AllResponse(blogs') = AllResponse(blogs)]_vars

Finished(r) == pc[r] \in {"unwind", "done"} /\ rq[r].op \in {"destory", "update"}

\* C10 as stated: a request ends with 204 or 202 only if its mutation matched
\* a record, and a request whose mutation matched none ends with 404.
C10_SuccessOnlyIfMatched ==
  \A r \in Workers :
    (Finished(r) /\ found[r] > 0)
      => /\ resp[r].status \in {HTTP_204_NO_CONTENT, HTTP_202_ACCEPTED} => matched[r] > 0
         /\ matched[r] = 0 => resp[r].status = HTTP_404_NOT_FOUND

\* C10 as amended: a request ends with 404 exactly when its own existence check
\* found no record; a DELETE or PUT whose check found the record ends with its
\* success status or an uncaught error, also when its statement matched no
\* record.
C10_NotFoundIffCheckFailed ==
  \A r \in Workers :
    Finished(r)
      => /\ resp[r].status = HTTP_404_NOT_FOUND <=> found[r] = 0
         /\ (rq[r].op = "destory" /\ found[r] > 0)
              => resp[r].status \in {HTTP_204_NO_CONTENT, 500}
         /\ (rq[r].op = "update" /\ found[r] > 0)
              => resp[r].status \in {HTTP_202_ACCEPTED, 500}

\* C10 witness: a DELETE ended with 204 although its delete matched no record.
C10_Witness ==
  \E r \in Workers :
    /\ pc[r] = "done" /\ rq[r].op = "destory"
    /\ resp[r].status = HTTP_204_NO_CONTENT
    /\ found[r] = 1 /\ matched[r] = 0

====
